---- MODULE Spec2Model ----
(***************************************************************************)
(* Queue tree of libfactory/queue.py: LBQueue, OFQueue and SubmitQueue     *)
(* nodes over the sites of the MockBatchPlugin singleton.                  *)
(*                                                                         *)
(* Every method is evaluated as the Python code evaluates it: a call       *)
(* yields a result holding the sites after the call, how the call ended    *)
(* ("int": returned an integer, "None": fell off the end of the function,  *)
(* "raise": an exception left the call) and the calls it made.             *)
(***************************************************************************)
EXTENDS Integers, Sequences, FiniteSets, TLC

VARIABLES sites, last, clock, jobs, cache, lock, instances, seen, qm, th

\* the sites of the MockBatchPlugin and the latest call on the queue tree
tvars == <<sites, last>>

\* the schedd side: time, the jobs of the schedd, the query cache and lock of the
\* HTCondorScheddImpl object, the singleton registries, the latest call
cvars == <<clock, jobs, cache, lock, instances, seen>>

\* the latest construction of a QueueManager, and the threads at work: where
\* each of them is in its method and what it holds in its local variables
bvars == <<qm, th>>

vars == <<sites, last, clock, jobs, cache, lock, instances, seen, qm, th>>

(***************************************************************************)
(* Bounds of the model.                                                    *)
(***************************************************************************)
\* how far above its leaf's minfullpending a site's idle count is driven
MaxOver == 1
\* completed jobs followed, over all sites
MaxComplete == 1
\* largest quota handed to enqueue by the driver
MaxEnq == 4
\* consecutive rebalance calls on one node that are counted
MaxStreak == 4

(***************************************************************************)
(* Configuration: the tree of test_qtree cut down to three leaves, plus    *)
(* one LBQueue object that no QueueManager has wired (children == []).     *)
(***************************************************************************)
Leaves == {"subA", "subB", "subC"}

Inner == {"lbroot1", "ofnode1", "lbbare"}

Nodes == Leaves \cup Inner

\* A second configuration: one LBQueue root over three SubmitQueue leaves
\* with mock = max5, max10, max10 and the default minfullpending.
ScenLeaves == {"leaf1", "leaf2", "leaf3"}

ScenInner == {"lbscen"}

ScenNodes == ScenLeaves \cup ScenInner

AllNodes == Nodes \cup ScenNodes

klass ==
  [nd \in AllNodes |->
     CASE nd \in Leaves \cup ScenLeaves -> "SubmitQueue"
       [] nd = "ofnode1" -> "OFQueue"
       [] OTHER -> "LBQueue"]

childlist ==
  [nd \in AllNodes |->
     CASE nd = "lbroot1" -> <<"ofnode1", "subC">>
       [] nd = "ofnode1" -> <<"subA", "subB">>
       [] nd = "lbscen" -> <<"leaf1", "leaf2", "leaf3">>
       [] OTHER -> <<>>]

\* QueueManager wiring: children of a node in childlist order
children == [nd \in AllNodes |-> childlist[nd]]

Range(sq) == {sq[i] : i \in 1..Len(sq)}

parent(nd) == {p \in AllNodes : nd \in Range(children[p])}

rootlist == {nd \in AllNodes : parent(nd) = {}}

minfullpending ==
  [nd \in Leaves \cup ScenLeaves |->
     CASE nd = "subA" -> 1 [] nd = "subC" -> 0 [] OTHER -> 2]

\* the 'mock' option of a leaf section, "max<N>", as the parsed fields <<N>>
mock ==
  [nd \in Leaves \cup ScenLeaves |->
     CASE nd = "leaf1" -> <<5>>
       [] nd \in {"leaf2", "leaf3"} -> <<10>>
       [] OTHER -> <<1>>]

(***************************************************************************)
(* Results and the record of calls.                                        *)
(***************************************************************************)
Res(s, kind, ret, log) == [sites |-> s, kind |-> kind, ret |-> ret, log |-> log]

Ev(nd, op, arg, kind, ret, depth, post) ==
  [node |-> nd, op |-> op, arg |-> arg, kind |-> kind, ret |-> ret, depth |-> depth,
   post |-> post]

(***************************************************************************)
(* MockSite and MockBatchPluginImpl.                                       *)
(***************************************************************************)
\* MockSite.__init__: max parsed from the mock string, counts zero; None has no split()
MockSite(mk) ==
  IF mk = <<>> THEN [kind |-> "raise"]
  ELSE [kind |-> "ok", site |-> [max |-> mk[1], idle |-> 0, running |-> 0, complete |-> 0]]

MockSite_isFull(site) == site.running >= site.max

\* self.sites[label]: a dict lookup, KeyError when the label is no key
sites_getitem(s, label) ==
  IF label \in DOMAIN s THEN [kind |-> "ok", site |-> s[label]] ELSE [kind |-> "KeyError"]

\* d[k] = v on a dict
DictSet(s, k, v) == [x \in DOMAIN s \cup {k} |-> IF x = k THEN v ELSE s[x]]

\* MockBatchPluginImpl.submit(n, label, mock) with all its arguments bound
MockBatchPluginImpl_submit(s, n, label, mk) ==
  LET got == sites_getitem(s, label)
      made == MockSite(mk)
  IN IF got.kind = "KeyError" /\ made.kind = "raise" THEN Res(s, "raise", 0, <<>>)
     ELSE LET siteobj == IF got.kind = "KeyError" THEN made.site ELSE got.site
          IN Res(DictSet(s, label, [siteobj EXCEPT !.idle = @ + n]), "None", 0, <<>>)

\* a call batchplugin.submit(*args): n and label are required positional parameters
submit_call(s, args) ==
  IF Len(args) < 2 THEN Res(s, "raise", 0, <<>>)
  ELSE MockBatchPluginImpl_submit(s, args[1], args[2], IF Len(args) >= 3 THEN args[3] ELSE <<>>)

(***************************************************************************)
(* isFull.                                                                 *)
(***************************************************************************)
RECURSIVE isFull(_, _), isFullLoop(_, _, _, _), LBQueue_isFull(_, _), OFQueue_isFull(_, _)

\* variant: the idle test against minfullpending is left out
SubmitQueue_isFull_NoPending(nd, s) ==
  LET got == sites_getitem(s, nd)
  IN IF got.kind = "KeyError" THEN FALSE ELSE MockSite_isFull(got.site)

\* variant: a target holding exactly minfullpending idle jobs is not full
SubmitQueue_isFull_Strict(nd, s) ==
  LET got == sites_getitem(s, nd)
  IN IF got.kind = "KeyError" THEN FALSE
     ELSE IF MockSite_isFull(got.site) /\ got.site.idle > minfullpending[nd] THEN TRUE
     ELSE FALSE

SubmitQueue_isFull(nd, s) ==
  LET got == sites_getitem(s, nd)
  IN IF got.kind = "KeyError" THEN FALSE
     ELSE IF MockSite_isFull(got.site) /\ got.site.idle >= minfullpending[nd] THEN TRUE
     ELSE FALSE

\* full = True; for ch in self.children: if not ch.isFull(): full = False
isFullLoop(chs, i, full, s) ==
  IF i > Len(chs) THEN full
  ELSE isFullLoop(chs, i + 1, IF ~isFull(chs[i], s) THEN FALSE ELSE full, s)

\* variant: full is assigned from every child, so the last child decides
LBQueue_isFull_LastChild(nd, s) ==
  IF children[nd] = <<>> THEN TRUE ELSE isFull(children[nd][Len(children[nd])], s)

LBQueue_isFull(nd, s) == isFullLoop(children[nd], 1, TRUE, s)

OFQueue_isFull(nd, s) == isFullLoop(children[nd], 1, TRUE, s)

isFull(nd, s) ==
  CASE klass[nd] = "SubmitQueue" -> SubmitQueue_isFull(nd, s)
    [] klass[nd] = "LBQueue" -> LBQueue_isFull(nd, s)
    [] klass[nd] = "OFQueue" -> OFQueue_isFull(nd, s)

(***************************************************************************)
(* enqueue.                                                                *)
(***************************************************************************)
RECURSIVE enqueue(_, _, _, _), LBQueue_enqueue(_, _, _, _), OFQueue_enqueue(_, _, _, _),
          LBQueue_enqueueLoop(_, _, _, _, _, _), OFQueue_enqueueLoop(_, _, _, _, _, _)

\* variant: label and mock are passed along with n
SubmitQueue_submitArgs_Labelled(nd, n) == <<n, nd, mock[nd]>>

\* the arguments SubmitQueue.enqueue passes to batchplugin.submit
SubmitQueue_submitArgs(nd, n) == <<n>>

\* variant: submits without asking isFull first
SubmitQueue_enqueue_NoCheck(nd, n, s, d) ==
  LET r == submit_call(s, SubmitQueue_submitArgs(nd, n))
  IN Res(r.sites, r.kind, 0,
         <<Ev(nd, "submit", n, r.kind, 0, d + 1, r.sites),
           Ev(nd, "enqueue", n, r.kind, 0, d, r.sites)>>)

\* variant: the test is inverted, a full leaf submits and an open one does not
SubmitQueue_enqueue_Inverted(nd, n, s, d) ==
  IF SubmitQueue_isFull(nd, s)
  THEN LET r == submit_call(s, SubmitQueue_submitArgs(nd, n))
           sub == Ev(nd, "submit", n, r.kind, 0, d + 1, r.sites)
       IN Res(r.sites, r.kind, 0, <<sub, Ev(nd, "enqueue", n, r.kind, 0, d, r.sites)>>)
  ELSE Res(s, "None", 0, <<Ev(nd, "enqueue", n, "None", 0, d, s)>>)

SubmitQueue_enqueue(nd, n, s, d) ==
  IF ~SubmitQueue_isFull(nd, s)
  THEN LET r == submit_call(s, SubmitQueue_submitArgs(nd, n))
           sub == Ev(nd, "submit", n, r.kind, 0, d + 1, r.sites)
       IN Res(r.sites, r.kind, 0, <<sub, Ev(nd, "enqueue", n, r.kind, 0, d, r.sites)>>)
  ELSE Res(s, "None", 0, <<Ev(nd, "enqueue", n, "None", 0, d, s)>>)

\* openchildren: the children that are not full, in order
openchildren(nd, s) == SelectSeq(children[nd], LAMBDA ch : ~isFull(ch, s))

\* variant: the share without the floor of 1 for very low numbers
LBQueue_tosub_NoFloor(n, numopen) ==
  IF numopen = 1 THEN n ELSE n \div numopen

\* tosub of LBQueue.enqueue for n > 0 and numopen > 0
LBQueue_tosub(n, numopen) ==
  IF numopen = 1 THEN n
  ELSE IF n \div numopen = 0 THEN 1 ELSE n \div numopen

\* for ch in openchildren: ch.enqueue(tosub)
LBQueue_enqueueLoop(chs, i, tosub, s, d, log) ==
  IF i > Len(chs) THEN Res(s, "None", 0, log)
  ELSE LET r == enqueue(chs[i], tosub, s, d)
       IN IF r.kind = "raise" THEN Res(r.sites, "raise", 0, log \o r.log)
          ELSE LBQueue_enqueueLoop(chs, i + 1, tosub, r.sites, d, log \o r.log)

\* variant: the share is computed before the open children are counted,
\* so that n / 0 raises ZeroDivisionError on a node without open child
LBQueue_enqueue_DivFirst(nd, n, s, d) ==
  LET r == IF n > 0
           THEN IF Len(openchildren(nd, s)) = 0 THEN Res(s, "raise", 0, <<>>)
                ELSE LBQueue_enqueueLoop(openchildren(nd, s), 1,
                                         LBQueue_tosub(n, Len(openchildren(nd, s))),
                                         s, d + 1, <<>>)
           ELSE Res(s, "None", 0, <<>>)
  IN Res(r.sites, r.kind, 0, Append(r.log, Ev(nd, "enqueue", n, r.kind, 0, d, r.sites)))

LBQueue_enqueue(nd, n, s, d) ==
  LET r == IF n > 0 /\ Len(openchildren(nd, s)) > 0
           THEN LBQueue_enqueueLoop(openchildren(nd, s), 1,
                                    LBQueue_tosub(n, Len(openchildren(nd, s))), s, d + 1, <<>>)
           ELSE Res(s, "None", 0, <<>>)
  IN Res(r.sites, r.kind, 0, Append(r.log, Ev(nd, "enqueue", n, r.kind, 0, d, r.sites)))

\* for ch in self.children: if not ch.isFull(): ch.enqueue(n)
OFQueue_enqueueLoop(chs, i, n, s, d, log) ==
  IF i > Len(chs) THEN Res(s, "None", 0, log)
  ELSE IF isFull(chs[i], s) THEN OFQueue_enqueueLoop(chs, i + 1, n, s, d, log)
  ELSE LET r == enqueue(chs[i], n, s, d)
       IN IF r.kind = "raise" THEN Res(r.sites, "raise", 0, log \o r.log)
          ELSE OFQueue_enqueueLoop(chs, i + 1, n, r.sites, d, log \o r.log)

\* variant: only n == 0 is turned away, a negative n is passed on
OFQueue_enqueue_NonZero(nd, n, s, d) ==
  LET r == IF n # 0 /\ Len(openchildren(nd, s)) > 0
           THEN OFQueue_enqueueLoop(children[nd], 1, n, s, d + 1, <<>>)
           ELSE Res(s, "None", 0, <<>>)
  IN Res(r.sites, r.kind, 0, Append(r.log, Ev(nd, "enqueue", n, r.kind, 0, d, r.sites)))

OFQueue_enqueue(nd, n, s, d) ==
  LET r == IF n > 0 /\ Len(openchildren(nd, s)) > 0
           THEN OFQueue_enqueueLoop(children[nd], 1, n, s, d + 1, <<>>)
           ELSE Res(s, "None", 0, <<>>)
  IN Res(r.sites, r.kind, 0, Append(r.log, Ev(nd, "enqueue", n, r.kind, 0, d, r.sites)))

enqueue(nd, n, s, d) ==
  CASE klass[nd] = "SubmitQueue" -> SubmitQueue_enqueue(nd, n, s, d)
    [] klass[nd] = "LBQueue" -> LBQueue_enqueue(nd, n, s, d)
    [] klass[nd] = "OFQueue" -> OFQueue_enqueue(nd, n, s, d)

(***************************************************************************)
(* rebalance.                                                              *)
(***************************************************************************)
RECURSIVE rebalance(_, _, _), rebalanceLoop(_, _, _, _, _, _),
          rebalanceLoop_Reversed(_, _, _, _, _, _),
          LBQueue_rebalance(_, _, _), OFQueue_rebalance(_, _, _)

\* variant: the whole idle count is taken, minfullpending is not kept back
SubmitQueue_rebalance_TakeAll(nd, s, d) ==
  LET got == sites_getitem(s, nd)
      congested == /\ got.kind = "ok"
                   /\ MockSite_isFull(got.site)
                   /\ got.site.idle > minfullpending[nd]
      overflow == IF congested THEN got.site.idle ELSE 0
      after == IF congested THEN [s EXCEPT ![nd].idle = @ - overflow] ELSE s
  IN Res(after, "int", overflow, <<Ev(nd, "rebalance", 0, "int", overflow, d, after)>>)

\* variant: the test idle > minfullpending is left out
SubmitQueue_rebalance_Unguarded(nd, s, d) ==
  LET got == sites_getitem(s, nd)
      congested == got.kind = "ok" /\ MockSite_isFull(got.site)
      overflow == IF congested THEN got.site.idle - minfullpending[nd] ELSE 0
      after == IF congested THEN [s EXCEPT ![nd].idle = @ - overflow] ELSE s
  IN Res(after, "int", overflow, <<Ev(nd, "rebalance", 0, "int", overflow, d, after)>>)

\* variant: site.idle is not written back
SubmitQueue_rebalance_KeepIdle(nd, s, d) ==
  LET got == sites_getitem(s, nd)
      congested == /\ got.kind = "ok"
                   /\ MockSite_isFull(got.site)
                   /\ got.site.idle > minfullpending[nd]
      overflow == IF congested THEN got.site.idle - minfullpending[nd] ELSE 0
  IN Res(s, "int", overflow, <<Ev(nd, "rebalance", 0, "int", overflow, d, s)>>)

\* variant: the KeyError of an unknown label is not caught
SubmitQueue_rebalance_NoExcept(nd, s, d) ==
  LET got == sites_getitem(s, nd)
      congested == /\ got.kind = "ok"
                   /\ MockSite_isFull(got.site)
                   /\ got.site.idle > minfullpending[nd]
      overflow == IF congested THEN got.site.idle - minfullpending[nd] ELSE 0
      after == IF congested THEN [s EXCEPT ![nd].idle = @ - overflow] ELSE s
  IN IF got.kind = "KeyError"
     THEN Res(s, "raise", 0, <<Ev(nd, "rebalance", 0, "raise", 0, d, s)>>)
     ELSE Res(after, "int", overflow, <<Ev(nd, "rebalance", 0, "int", overflow, d, after)>>)

SubmitQueue_rebalance(nd, s, d) ==
  LET got == sites_getitem(s, nd)
      congested == /\ got.kind = "ok"
                   /\ MockSite_isFull(got.site)
                   /\ got.site.idle > minfullpending[nd]
      overflow == IF congested THEN got.site.idle - minfullpending[nd] ELSE 0
      after == IF congested THEN [s EXCEPT ![nd].idle = @ - overflow] ELSE s
  IN Res(after, "int", overflow, <<Ev(nd, "rebalance", 0, "int", overflow, d, after)>>)

\* variant: the children are visited from the last to the first
rebalanceLoop_Reversed(chs, i, overflow, s, d, log) ==
  IF i > Len(chs) THEN Res(s, "int", overflow, log)
  ELSE LET r == rebalance(chs[Len(chs) + 1 - i], s, d)
       IN IF r.kind = "raise" THEN Res(r.sites, "raise", 0, log \o r.log)
          ELSE rebalanceLoop_Reversed(chs, i + 1, overflow + r.ret, r.sites, d, log \o r.log)

\* overflow = 0; for ch in self.children: overflow += ch.rebalance()
rebalanceLoop(chs, i, overflow, s, d, log) ==
  IF i > Len(chs) THEN Res(s, "int", overflow, log)
  ELSE LET r == rebalance(chs[i], s, d)
       IN IF r.kind = "raise" THEN Res(r.sites, "raise", 0, log \o r.log)
          ELSE rebalanceLoop(chs, i + 1, overflow + r.ret, r.sites, d, log \o r.log)

\* the body shared by LBQueue.rebalance and OFQueue.rebalance
QTreeNode_rebalance(nd, s, d) ==
  LET c == rebalanceLoop(children[nd], 1, 0, s, d + 1, <<>>)
  IN IF c.kind = "raise"
     THEN Res(c.sites, "raise", 0, Append(c.log, Ev(nd, "rebalance", 0, "raise", 0, d, c.sites)))
     ELSE IF c.ret > 0 /\ ~isFull(nd, c.sites)
     THEN LET e == enqueue(nd, c.ret, c.sites, d + 1)
          IN IF e.kind = "raise"
             THEN Res(e.sites, "raise", 0,
                      Append(c.log \o e.log, Ev(nd, "rebalance", 0, "raise", 0, d, e.sites)))
             ELSE Res(e.sites, "int", 0,
                      Append(c.log \o e.log, Ev(nd, "rebalance", 0, "int", 0, d, e.sites)))
     ELSE Res(c.sites, "int", c.ret,
              Append(c.log, Ev(nd, "rebalance", 0, "int", c.ret, d, c.sites)))

LBQueue_rebalance(nd, s, d) == QTreeNode_rebalance(nd, s, d)

OFQueue_rebalance(nd, s, d) == QTreeNode_rebalance(nd, s, d)

rebalance(nd, s, d) ==
  CASE klass[nd] = "SubmitQueue" -> SubmitQueue_rebalance(nd, s, d)
    [] klass[nd] = "LBQueue" -> LBQueue_rebalance(nd, s, d)
    [] klass[nd] = "OFQueue" -> OFQueue_rebalance(nd, s, d)

(***************************************************************************)
(* getInfo.                                                                *)
(***************************************************************************)
RECURSIVE getInfo(_, _), getInfoLoop(_, _, _, _)

Info(i, r, c) == [idle |-> i, running |-> r, complete |-> c]

SubmitQueue_getInfo(nd, s) ==
  LET got == sites_getitem(s, nd)
  IN IF got.kind = "ok" THEN Info(got.site.idle, got.site.running, got.site.complete)
     ELSE Info(0, 0, 0)

\* for ch in self.children: info[self.label][state] += ch.getInfo()[...][state]
getInfoLoop(chs, i, info, s) ==
  IF i > Len(chs) THEN info
  ELSE LET ci == getInfo(chs[i], s)
       IN getInfoLoop(chs, i + 1,
                      Info(info.idle + ci.idle, info.running + ci.running,
                           info.complete + ci.complete), s)

\* variant: the counts of the first child are returned from inside the loop
QTreeNode_getInfo_FirstChild(nd, s) ==
  IF children[nd] = <<>> THEN Info(0, 0, 0) ELSE getInfo(children[nd][1], s)

QTreeNode_getInfo(nd, s) == getInfoLoop(children[nd], 1, Info(0, 0, 0), s)

getInfo(nd, s) ==
  IF klass[nd] = "SubmitQueue" THEN SubmitQueue_getInfo(nd, s) ELSE QTreeNode_getInfo(nd, s)

(***************************************************************************)
(* The schedd side: the query cache of HTCondorScheddImpl (htcondorlib.py) *)
(* and the TargetStatus analyzer of queue.py that reads through it.        *)
(*                                                                         *)
(* A job of the schedd is [label, jobstatus, ecs]: MATCH_APF_QUEUE,        *)
(* JobStatus and EnteredCurrentStatus.  A query answers with one ClassAd   *)
(* per job, carrying ServerTime and the attributes MyType and TargetType   *)
(* (mytype); the analyzer deletes these two and adds 'age' (hasage, age).  *)
(* The list a query returns is the list object the cache keeps, so the     *)
(* analyzer finds on a cached list the ClassAds it has worked on before.   *)
(* What deleting an attribute a record no longer has does is the record    *)
(* type's affair and not settled by this code: both outcomes are followed. *)
(***************************************************************************)
\* latest time followed, in seconds
MaxClock == 90
\* jobs in the schedd
MaxJobs == 2

\* default of the parameter cachingtime of HTCondorScheddImpl.__init__
cachingtime == 60

Labels == {"Q1", "Q2"}

\* JobStatus 1 is idle, 2 is running
JobStatuses == {1, 2}

\* the times the jobs entered their status, before the time followed begins
EcsSet == {-400, -330, -90, -30}

\* the jobs of the schedd: idle ones waiting for 90 seconds or more, running ones
\* started 30, 90 or 400 seconds ago
Job ==
  {j \in [label : Labels, jobstatus : JobStatuses, ecs : EcsSet] :
     /\ j.jobstatus = 1 => j.ecs # -30
     /\ j.jobstatus = 2 => j.ecs # -330}

None == [none |-> TRUE]

\* the ClassAd the schedd answers with for a job at time now
ClassAd(job, now) ==
  [label |-> job.label, jobstatus |-> job.jobstatus, ecs |-> job.ecs, servertime |-> now,
   mytype |-> TRUE, hasage |-> FALSE, age |-> 0]

\* schedd.query(constraint_str, attribute_l): constraint c stands for JobStatus == c
schedd_query(js, constraint_str, now) ==
  LET match == SelectSeq(js, LAMBDA j : \A i \in 1..Len(constraint_str) :
                                          j.jobstatus = constraint_str[i])
  IN [i \in 1..Len(match) |-> ClassAd(match[i], now)]

\* " && ".join(constraint_l), "true" for None and for the empty list
_build_constraint_str(constraint_l) == constraint_l

\* list.sort()
sort(l) == SortSeq(l, LAMBDA a, b : a < b)

\* variant: an entry is popped as soon as cachingtime seconds have passed
_clean_cache_Strict(cache_d, now, ct) ==
  [k \in {x \in DOMAIN cache_d : ~(now >= cache_d[x].ts + ct)} |-> cache_d[k]]

\* entries older than cachingtime are popped
_clean_cache(cache_d, now, ct) ==
  [k \in {x \in DOMAIN cache_d : ~(now > cache_d[x].ts + ct)} |-> cache_d[k]]

\* the key of a query in the caching dictionary
cachekey(attribute_l, constraint_l) ==
  <<sort(attribute_l), _build_constraint_str(sort(constraint_l))>>

\* HTCondorScheddImpl.condor_q without globalquery.  up: the schedd answers.
\* A query that raises leaves self.lock acquired; a query made while the lock
\* is held never returns ("block").
HTCondorScheddImpl_condor_q(cache_d, lk, js, now, attribute_l, constraint_l, up) ==
  LET cleaned == _clean_cache(cache_d, now, cachingtime)
      key == cachekey(attribute_l, constraint_l)
  IN IF key \in DOMAIN cleaned
     THEN [kind |-> "ok", out |-> cleaned[key].out, cache |-> cleaned, lock |-> lk,
           remote |-> FALSE, key |-> key]
     ELSE IF lk
     THEN [kind |-> "block", out |-> <<>>, cache |-> cleaned, lock |-> lk,
           remote |-> FALSE, key |-> key]
     ELSE IF ~up
     THEN [kind |-> "raise", out |-> <<>>, cache |-> cleaned, lock |-> TRUE,
           remote |-> TRUE, key |-> key]
     ELSE LET out == schedd_query(js, key[2], now)
          IN [kind |-> "ok", out |-> out,
              cache |-> [k \in DOMAIN cleaned \cup {key} |->
                           IF k = key THEN [ts |-> now, out |-> out] ELSE cleaned[k]],
              lock |-> lk, remote |-> TRUE, key |-> key]

(***************************************************************************)
(* TargetStatus.                                                           *)
(***************************************************************************)
RECURSIVE pick(_, _, _, _, _), selectLoop(_, _, _, _, _, _), keys(_)

\* the elements of a set of labels, as dict.keys() lists them
keys(S) ==
  IF S = {} THEN <<>>
  ELSE LET k == CHOOSE x \in S : TRUE IN <<k>> \o keys(S \ {k})

\* the ClassAds of one status and one label, as indices into cq, in list order:
\* si.filter(...) and si.indexby(IndexByKey('MATCH_APF_QUEUE'))
joblist(cq, status, q) ==
  SelectSeq([i \in 1..Len(cq) |-> i],
            LAMBDA i : cq[i].jobstatus = status /\ cq[i].label = q)

\* the labels si.getraw() has a list for
jobdict_keys(cq, status) == {cq[i].label : i \in {j \in 1..Len(cq) : cq[j].jobstatus = status}}

\* for j in joblist: keep the first job, then any job that entered its status
\* later (latest) or earlier (not latest) than the one kept
pick(cq, jl, k, cur, latest) ==
  IF k > Len(jl) THEN cur
  ELSE IF cur = 0 THEN pick(cq, jl, k + 1, jl[k], latest)
  ELSE IF (latest /\ cq[jl[k]].ecs > cq[cur].ecs) \/ (~latest /\ cq[jl[k]].ecs < cq[cur].ecs)
       THEN pick(cq, jl, k + 1, jl[k], latest)
       ELSE pick(cq, jl, k + 1, cur, latest)

\* del newest['MyType']; del newest['TargetType']; newest['age'] = ServerTime - ecs.
\* keyerror: the records raise KeyError when an attribute they do not have is
\* deleted, as a dictionary does; otherwise such a deletion does nothing.
settle(cq, i, keyerror) ==
  IF keyerror /\ ~cq[i].mytype THEN [kind |-> "raise", cq |-> cq]
  ELSE [kind |-> "ok",
        cq |-> [cq EXCEPT ![i].mytype = FALSE, ![i].hasage = TRUE,
                          ![i].age = cq[i].servertime - cq[i].ecs]]

\* for q in jobdict.keys(): select, settle, jobdict[q] = selected
selectLoop(cq, status, ks, latest, dict, keyerror) ==
  IF ks = <<>> THEN [kind |-> "ok", cq |-> cq, dict |-> dict]
  ELSE LET i == pick(cq, joblist(cq, status, ks[1]), 1, 0, latest)
           r == settle(cq, i, keyerror)
       IN IF r.kind = "raise" THEN [kind |-> "raise", cq |-> r.cq, dict |-> dict]
          ELSE selectLoop(r.cq, status, Tail(ks), latest,
                          [q \in DOMAIN dict \cup {ks[1]} |->
                             IF q = ks[1] THEN i ELSE dict[q]],
                          keyerror)

\* variant: the idle job that entered its status earliest is selected
get_oldestidle_Earliest(cq, keyerror) ==
  selectLoop(cq, 1, keys(jobdict_keys(cq, 1)), FALSE, <<>>, keyerror)

get_recentrunning(cq, keyerror) ==
  selectLoop(cq, 2, keys(jobdict_keys(cq, 2)), TRUE, <<>>, keyerror)

get_oldestidle(cq, keyerror) ==
  selectLoop(cq, 1, keys(jobdict_keys(cq, 1)), TRUE, <<>>, keyerror)

TargetInfo == [isfull |-> "None", howfull |-> "None", newestrunning |-> None, oldestidle |-> None]

\* variant: only the labels of the idle jobs are given a TargetInfo
_build_queuedict_IdleOnly(runningdict, idledict) ==
  [q \in DOMAIN idledict |->
     [TargetInfo EXCEPT !.newestrunning = IF q \in DOMAIN runningdict THEN runningdict[q]
                                          ELSE None,
                        !.oldestidle = idledict[q]]]

_build_queuedict(runningdict, idledict) ==
  [q \in DOMAIN runningdict \cup DOMAIN idledict |->
     [TargetInfo EXCEPT !.newestrunning = IF q \in DOMAIN runningdict THEN runningdict[q]
                                          ELSE None,
                        !.oldestidle = IF q \in DOMAIN idledict THEN idledict[q] ELSE None]]

\* variant: a recently started job does not take the verdict back
calc_isfull_NoOverride(ti) ==
  IF ti.oldestidle = None THEN FALSE ELSE ti.oldestidle.age > 360

\* _calc_isfull for one TargetInfo; newestrunning['age'] on None raises TypeError,
\* which the except clause passes over
calc_isfull(ti) ==
  IF ti.oldestidle = None THEN FALSE
  ELSE LET first == ti.oldestidle.age > 360
       IN IF ti.newestrunning = None THEN first
          ELSE IF ti.newestrunning.age < 120 THEN FALSE ELSE first

_calc_isfull(queuedict) ==
  [q \in DOMAIN queuedict |-> [queuedict[q] EXCEPT !.isfull = calc_isfull(queuedict[q])]]

_calc_howfull(queuedict) == queuedict

\* the body of the try statement of get_isfull, after sd.condor_q(...) has ended as q;
\* queuedict is {} until _build_queuedict has returned
get_isfull_try(q, keyerror) ==
  IF q.kind = "raise" THEN [kind |-> "raise", queuedict |-> <<>>, cq |-> q.out]
  ELSE LET rr == get_recentrunning(q.out, keyerror)
       IN IF rr.kind = "raise" THEN [kind |-> "raise", queuedict |-> <<>>, cq |-> rr.cq]
          ELSE LET oi == get_oldestidle(rr.cq, keyerror)
               IN IF oi.kind = "raise"
                  THEN [kind |-> "raise", queuedict |-> <<>>, cq |-> oi.cq]
                  ELSE LET rrdict == [k \in DOMAIN rr.dict |-> oi.cq[rr.dict[k]]]
                           oidict == [k \in DOMAIN oi.dict |-> oi.cq[oi.dict[k]]]
                       IN [kind |-> "ok",
                           queuedict |-> _calc_howfull(_calc_isfull(
                                            _build_queuedict(rrdict, oidict))),
                           cq |-> oi.cq]

\* variant: no except clause, what the body raises leaves get_isfull
get_isfull_NoExcept(q, keyerror) ==
  LET r == get_isfull_try(q, keyerror)
  IN [kind |-> r.kind, queuedict |-> r.queuedict, cq |-> r.cq, step |-> r.kind]

\* get_isfull: whatever the body raises is caught and queuedict is returned
get_isfull(q, keyerror) ==
  LET r == get_isfull_try(q, keyerror)
  IN [kind |-> "ok", queuedict |-> r.queuedict, cq |-> r.cq, step |-> r.kind]

(***************************************************************************)
(* The singletons: HTCondorSchedd.__new__, HTCondorCollector.__new__ and   *)
(* MockBatchPlugin.__new__ keep the implementation objects in class        *)
(* attributes.  reg maps <<class, key>> to the object kept, made counts    *)
(* the implementation objects created for a key, ids numbers the objects.  *)
(***************************************************************************)
NoInstances == [reg |-> <<>>, made |-> <<>>, ids |-> 0]

\* socket.gethostbyaddr(hostname)[0]
gethostbyaddr == [h \in {"h1", "alias1"} |-> "h1.dom"]

\* _address: '<hostname>' or '<hostname>:<port>' of the resolved name; port 0 is None
_address(hostname, port) ==
  IF port # 0 THEN <<gethostbyaddr[hostname], port>> ELSE <<gethostbyaddr[hostname], 0>>

\* the key of the registry for a constructor call; hostname or address "" stands
\* for None
scheddkey(address) ==
  <<"HTCondorSchedd", IF address = "" THEN "localhost" ELSE address, 0>>

collectorkey(hostname, port) ==
  IF hostname = "" THEN <<"HTCondorCollector", "localhost", 0>>
  ELSE <<"HTCondorCollector">> \o _address(hostname, port)

mockkey == <<"MockBatchPlugin", "instance", 0>>

\* the registry after the implementation object for a key has been created and kept
keep(inst, k) ==
  [reg |-> [x \in DOMAIN inst.reg \cup {k} |-> IF x = k THEN inst.ids + 1 ELSE inst.reg[x]],
   made |-> [x \in DOMAIN inst.made \cup {k} |->
               IF x = k THEN (IF k \in DOMAIN inst.made THEN inst.made[k] + 1 ELSE 1)
               ELSE inst.made[x]],
   ids |-> inst.ids + 1]

\* variant: an implementation object is created at every call
lookup_Always(inst, k, found) ==
  IF ~found THEN [kind |-> "raise", inst |-> inst, ret |-> 0]
  ELSE [kind |-> "ok", inst |-> keep(inst, k), ret |-> keep(inst, k).reg[k]]

\* if not key in instances.keys(): instances[key] = Impl(...); return instances[key]
\* found: the constructor of the implementation object does not raise
lookup(inst, k, found) ==
  IF k \in DOMAIN inst.reg THEN [kind |-> "ok", inst |-> inst, ret |-> inst.reg[k]]
  ELSE IF ~found THEN [kind |-> "raise", inst |-> inst, ret |-> 0]
  ELSE [kind |-> "ok", inst |-> keep(inst, k), ret |-> keep(inst, k).reg[k]]

HTCondorSchedd_new(inst, address, found) == lookup(inst, scheddkey(address), found)

HTCondorCollector_new(inst, hostname, port, found) ==
  lookup(inst, collectorkey(hostname, port), found)

MockBatchPlugin_new(inst, found) == lookup(inst, mockkey, found)

(***************************************************************************)
(* Calls on the schedd side.  `seen` holds the latest call.                *)
(***************************************************************************)
NoCaches == [q |-> <<>>, history |-> <<>>]

Unseen ==
  [op |-> "none", kind |-> "None", key |-> <<>>, remote |-> FALSE, out |-> <<>>,
   queuedict |-> <<>>, ret |-> 0, pre |-> NoCaches, prereg |-> <<>>, now |-> 0,
   query |-> "none", step |-> "none"]

\* attribute lists and constraint lists handed to the queries
AttrLists == {<<1, 2>>, <<2, 1>>}

ConstraintLists == {<<>>, <<1>>}

JobSeqs == UNION {[1..n -> Job] : n \in 0..MaxJobs}

\* time passes
Tick ==
  /\ clock + 30 <= MaxClock
  /\ clock' = clock + 30
  /\ seen' = [Unseen EXCEPT !.now = clock']
  /\ UNCHANGED <<jobs, cache, lock, instances, tvars, bvars>>

\* the list condor_q returned is the list kept in the cache: what the caller
\* does to its ClassAds is done to the cached ones
aliased(cache_d, key, cq) ==
  IF key \in DOMAIN cache_d THEN [cache_d EXCEPT ![key].out = cq] ELSE cache_d

\* TargetStatus().get_isfull()
GetIsFull(found, up, keyerror) ==
  LET sd == HTCondorSchedd_new(instances, "", found)
      q == IF sd.kind = "raise"
           THEN [kind |-> "raise", out |-> <<>>, cache |-> cache.q, lock |-> lock,
                 remote |-> FALSE, key |-> <<>>]
           ELSE HTCondorScheddImpl_condor_q(cache.q, lock, jobs, clock, <<1, 2>>, <<>>, up)
      r == get_isfull(q, keyerror)
  IN /\ q.kind # "block"
     /\ instances' = sd.inst
     /\ cache' = [cache EXCEPT !.q = aliased(q.cache, q.key, r.cq)]
     /\ lock' = q.lock
     /\ seen' = [Unseen EXCEPT !.op = "get_isfull", !.kind = r.kind, !.key = q.key,
                               !.remote = q.remote, !.out = q.out,
                               !.queuedict = r.queuedict, !.pre = cache, !.now = clock,
                               !.query = q.kind, !.step = r.step]
     /\ UNCHANGED <<clock, jobs, tvars, bvars>>

\* condor_q(attribute_l, constraint_l) on the schedd object
CondorQ(attribute_l, constraint_l, up) ==
  LET q == HTCondorScheddImpl_condor_q(cache.q, lock, jobs, clock, attribute_l,
                                       constraint_l, up)
  IN /\ q.kind # "block"
     /\ cache' = [cache EXCEPT !.q = q.cache]
     /\ lock' = q.lock
     /\ seen' = [Unseen EXCEPT !.op = "condor_q", !.kind = q.kind, !.key = q.key,
                               !.remote = q.remote, !.out = q.out, !.pre = cache,
                               !.now = clock]
     /\ UNCHANGED <<clock, jobs, instances, tvars, bvars>>

\* condor_history(attribute_l, constraint_l): the same code over its own dictionary
CondorHistory(attribute_l, constraint_l, up) ==
  LET q == HTCondorScheddImpl_condor_q(cache.history, lock, jobs, clock, attribute_l,
                                       constraint_l, up)
  IN /\ q.kind # "block"
     /\ cache' = [cache EXCEPT !.history = q.cache]
     /\ lock' = q.lock
     /\ seen' = [Unseen EXCEPT !.op = "condor_history", !.kind = q.kind, !.key = q.key,
                               !.remote = q.remote, !.out = q.out, !.pre = cache,
                               !.now = clock]
     /\ UNCHANGED <<clock, jobs, instances, tvars, bvars>>

\* a constructor call of one of the three singleton classes
Construct(r, k) ==
  /\ instances' = r.inst
  /\ seen' = [Unseen EXCEPT !.op = "new", !.kind = r.kind, !.key = k, !.ret = r.ret,
                            !.prereg = instances.reg, !.now = clock]
  /\ UNCHANGED <<clock, jobs, cache, lock, tvars, bvars>>

NewSchedd(address, found) ==
  Construct(HTCondorSchedd_new(instances, address, found), scheddkey(address))

NewCollector(hostname, port, found) ==
  Construct(HTCondorCollector_new(instances, hostname, port, found),
            collectorkey(hostname, port))

NewMockBatchPlugin(found) == Construct(MockBatchPlugin_new(instances, found), mockkey)

\* nothing has happened on the schedd side
ScheddInit ==
  /\ clock = 0
  /\ jobs = <<>>
  /\ cache = NoCaches
  /\ lock = FALSE
  /\ instances = NoInstances
  /\ seen = Unseen

(***************************************************************************)
(* QueueManager.__init__.                                                  *)
(* A configuration is the sequence of its sections and, per section, the   *)
(* class it names, its childlist, the one option it omits ("none": it      *)
(* omits nothing) and the batch plugin it names.                           *)
(***************************************************************************)
\* the classes the module defines
NodeClasses == {"LBQueue", "OFQueue", "SubmitQueue"}

PluginClasses == {"MockBatchPlugin"}

Section(k, cl, o, bp) == [klass |-> k, childlist |-> cl, omitted |-> o, batchplugin |-> bp]

\* childlists: a section of the file, two of them, a label that is no section
ChildLists == {<<"a">>, <<"b">>, <<"c">>, <<"b", "c">>, <<"zz">>}

LeafSections ==
  {Section("SubmitQueue", <<>>, o, "MockBatchPlugin") :
     o \in {"none", "maxtransfer", "minfullpending", "batchplugin"}}
  \cup {Section("SubmitQueue", <<>>, "none", "NoSuchPlugin")}

InnerSections ==
  {Section(k, cl, "none", "") : k \in {"LBQueue", "OFQueue"}, cl \in ChildLists}
  \cup {Section(k, <<"b">>, o, "") : k \in {"LBQueue", "OFQueue"},
                                     o \in {"maxtransfer", "childlist"}}

OtherSections ==
  {Section("NoSuchClass", <<>>, "none", ""), Section("", <<>>, "klass", "")}

Sections == LeafSections \cup InnerSections \cup OtherSections

SectionLists == {<<"a">>, <<"a", "b">>, <<"a", "b", "c">>}

Configs ==
  UNION {{[sections |-> sl, sec |-> f] : f \in [Range(sl) -> Sections]} : sl \in SectionLists}

NoConfig == [sections |-> <<>>, sec |-> <<>>]

\* the orders in which a dictionary may hand out its keys
Orders(S) == {o \in [1..Cardinality(S) -> S] : \A i, j \in 1..Cardinality(S) :
                                                 o[i] = o[j] => i = j}

Raised == [kind |-> "raise", childlist |-> <<>>, batchplugin |-> FALSE]

\* SubmitQueue.__init__: getboolean and getint raise on a missing option; what
\* the lookup of the batch plugin raises is swallowed and self.batchplugin is not set
SubmitQueue_init(sec) ==
  IF sec.omitted \in {"isroot", "maxtransfer"} THEN Raised
  ELSE IF sec.omitted = "minfullpending" THEN Raised
  ELSE [kind |-> "ok", childlist |-> <<>>,
        batchplugin |-> sec.omitted # "batchplugin" /\ sec.batchplugin \in PluginClasses]

\* LBQueue.__init__; bound: threading.Thread.__init__(self) refuses an object that
\* is no Thread (an unbound method checks its first argument)
LBQueue_init(sec, bound) ==
  IF bound THEN Raised
  ELSE IF sec.omitted \in {"isroot", "maxtransfer", "childlist"} THEN Raised
  ELSE [kind |-> "ok", childlist |-> sec.childlist, batchplugin |-> FALSE]

\* OFQueue.__init__
OFQueue_init(sec, bound) ==
  IF bound THEN Raised
  ELSE IF sec.omitted \in {"isroot", "maxtransfer", "childlist"} THEN Raised
  ELSE [kind |-> "ok", childlist |-> sec.childlist, batchplugin |-> FALSE]

\* klassname = cp.get(section, 'klass'); ko = getattr(module, klassname); qo = ko(cp, section)
newNode(sec, bound) ==
  IF sec.omitted = "klass" THEN Raised
  ELSE IF sec.klass \notin NodeClasses THEN Raised
  ELSE CASE sec.klass = "SubmitQueue" -> SubmitQueue_init(sec)
         [] sec.klass = "LBQueue" -> LBQueue_init(sec, bound)
         [] sec.klass = "OFQueue" -> OFQueue_init(sec, bound)

NoQm ==
  [kind |-> "none", cfg |-> NoConfig, childlist |-> <<>>, batchplugin |-> <<>>,
   children |-> <<>>, parent |-> <<>>, assigned |-> <<>>, rootlist |-> <<>>]

RECURSIVE sectionLoop(_, _, _, _), wireChildren(_, _, _), wireLoop(_, _), rootLoop(_, _)

\* for section in cp.sections(): the node objects, each with no child and no parent
sectionLoop(q, cfg, todo, bound) ==
  IF todo = <<>> THEN q
  ELSE LET qo == newNode(cfg.sec[todo[1]], bound)
           add(f, v) == [x \in DOMAIN f \cup {todo[1]} |-> IF x = todo[1] THEN v ELSE f[x]]
       IN IF qo.kind = "raise" THEN [q EXCEPT !.kind = "raise"]
          ELSE sectionLoop([q EXCEPT !.childlist = add(@, qo.childlist),
                                     !.batchplugin = add(@, qo.batchplugin),
                                     !.children = add(@, <<>>),
                                     !.parent = add(@, ""),
                                     !.assigned = add(@, 0)],
                           cfg, Tail(todo), bound)

\* for ch in qo.childlist: co = queuesbyname[ch]; qo.children.append(co); co.parent = qo
wireChildren(q, qname, chl) ==
  IF chl = <<>> THEN q
  ELSE IF chl[1] \notin DOMAIN q.children THEN [q EXCEPT !.kind = "raise"]
  ELSE wireChildren([q EXCEPT !.children[qname] = Append(@, chl[1]),
                              !.parent[chl[1]] = qname,
                              !.assigned[chl[1]] = @ + 1],
                    qname, Tail(chl))

\* for qname in self.queuesbyname.keys()
wireLoop(q, order) ==
  IF order = <<>> \/ q.kind = "raise" THEN q
  ELSE wireLoop(wireChildren(q, order[1], q.childlist[order[1]]), Tail(order))

\* for qo in self.allqueues: if qo.parent is None: self.rootlist.append(qo)
rootLoop(q, todo) ==
  IF todo = <<>> THEN <<>>
  ELSE (IF q.parent[todo[1]] = "" THEN <<todo[1]>> ELSE <<>>) \o rootLoop(q, Tail(todo))

\* QueueManager(cp); order: the order of queuesbyname.keys().  When an exception
\* leaves the constructor there is no QueueManager object.
QueueManager_init(cfg, bound, order) ==
  LET made == sectionLoop([NoQm EXCEPT !.kind = "ok", !.cfg = cfg], cfg, cfg.sections, bound)
      wired == IF made.kind = "raise" THEN made ELSE wireLoop(made, order)
  IN IF wired.kind = "raise" THEN [NoQm EXCEPT !.kind = "raise", !.cfg = cfg]
     ELSE [wired EXCEPT !.rootlist = rootLoop(wired, cfg.sections)]

\* qm = QueueManager(cp) on the configuration at hand
Build(bound, order) ==
  /\ qm.kind = "config"
  /\ qm' = QueueManager_init(qm.cfg, bound, order)
  /\ UNCHANGED <<tvars, cvars, th>>

\* no thread is at work
BuildInit == qm = NoQm /\ th = [kind |-> "none"]

(***************************************************************************)
(* The driver.  test_qtree calls enqueue and rebalance on the nodes of the *)
(* root list, and processComplete and processIdle on the plugin; the       *)
(* same methods are called on every other node by its parent.  `last`      *)
(* holds the latest call on a node: the sites before it, how it ended,     *)
(* what it returned and the calls made below it, until the driver goes on  *)
(* to its next statement (test_qtree drops every return value).            *)
(* self.cycles is read by no method of the tree and is left out.           *)
(***************************************************************************)
NoPrev == [kind |-> "none", ret |-> 0]

Call(op, nd, arg, pre, r, streak, prev, full, info) ==
  [op |-> op, node |-> nd, arg |-> arg, pre |-> pre, kind |-> r.kind, ret |-> r.ret,
   log |-> r.log, streak |-> streak, prev |-> prev, full |-> full, info |-> info]

\* between calls on the tree: nothing to report about a call
Quiet(s) ==
  Call("none", "none", 0, s, Res(s, "None", 0, <<>>), 0, NoPrev, FALSE, Info(0, 0, 0))

Init ==
  /\ sites = <<>>
  /\ last = Quiet(<<>>)
  /\ ScheddInit
  /\ BuildInit

EnqArgs == -1..MaxEnq

\* the driver is between two statements
Ready == last.op = "none"

\* largest idle count the model drives the site of a leaf to
IdleCap(label) == minfullpending[label] + MaxOver

RECURSIVE Total(_)

\* the sum of a function of numbers
Total(f) ==
  IF DOMAIN f = {} THEN 0
  ELSE LET k == CHOOSE x \in DOMAIN f : TRUE
       IN f[k] + Total([x \in DOMAIN f \ {k} |-> f[x]])

\* the largest of a set of numbers
Largest(S) == CHOOSE m \in S : \A x \in S : x <= m

SubmitArgs == 0..Largest({IdleCap(l) : l \in Leaves})

\* no site runs more jobs than the largest max of the configuration
RunRange == 0..Largest({mock[l][1] : l \in Leaves})

\* the submit collaborator called with its full signature, label=section, mock=mock
Submit(label, n) ==
  LET r == submit_call(sites, <<n, label, mock[label]>>)
  IN /\ Ready
     /\ r.kind # "raise"
     /\ r.sites[label].idle <= IdleCap(label)
     /\ sites' = r.sites
     /\ last' = Quiet(r.sites)
     /\ UNCHANGED <<cvars, bvars>>

\* processComplete: each running job completes when random.random() < completefactor
ProcessComplete ==
  \E tocomplete \in [DOMAIN sites -> RunRange] :
    /\ Ready
    /\ \A l \in DOMAIN sites : tocomplete[l] <= sites[l].running
    /\ Total([l \in DOMAIN sites |-> sites[l].complete + tocomplete[l]]) <= MaxComplete
    /\ sites' = [l \in DOMAIN sites |->
                   [sites[l] EXCEPT !.running = @ - tocomplete[l],
                                    !.complete = @ + tocomplete[l]]]
    /\ last' = Quiet(sites')
    /\ UNCHANGED <<cvars, bvars>>

\* torun of processIdle for one site
torun(site) ==
  IF site.idle > 0 /\ site.running < site.max
  THEN IF site.idle < site.max - site.running THEN site.idle ELSE site.max - site.running
  ELSE 0

ProcessIdle ==
  /\ Ready
  /\ sites' = [l \in DOMAIN sites |->
                 [sites[l] EXCEPT !.running = @ + torun(sites[l]),
                                  !.idle = @ - torun(sites[l])]]
  /\ last' = Quiet(sites')
  /\ UNCHANGED <<cvars, bvars>>

Enqueue(nd, n) ==
  LET r == enqueue(nd, n, sites, 0)
  IN /\ Ready
     /\ sites' = r.sites
     /\ last' = Call("enqueue", nd, n, sites, r, 0, NoPrev, FALSE, Info(0, 0, 0))
     /\ UNCHANGED <<cvars, bvars>>

Rebalance(nd) ==
  LET r == rebalance(nd, sites, 0)
      again == last.op = "rebalance" /\ last.node = nd
      streak == IF again
                THEN (IF last.streak < MaxStreak THEN last.streak + 1 ELSE MaxStreak)
                ELSE 1
      prev == IF again THEN [kind |-> last.kind, ret |-> last.ret] ELSE NoPrev
  IN /\ Ready \/ again
     /\ sites' = r.sites
     /\ last' = Call("rebalance", nd, 0, sites, r, streak, prev, FALSE, Info(0, 0, 0))
     /\ UNCHANGED <<cvars, bvars>>

IsFull(nd) ==
  /\ Ready
  /\ sites' = sites
  /\ last' = Call("isFull", nd, 0, sites, Res(sites, "bool", 0, <<>>), 0, NoPrev,
                  isFull(nd, sites), Info(0, 0, 0))
  /\ UNCHANGED <<cvars, bvars>>

GetInfo(nd) ==
  /\ Ready
  /\ sites' = sites
  /\ last' = Call("getInfo", nd, 0, sites, Res(sites, "dict", 0, <<>>), 0, NoPrev,
                  FALSE, getInfo(nd, sites))
  /\ UNCHANGED <<cvars, bvars>>

\* the call has returned or raised and the driver goes on
Continue ==
  /\ ~Ready
  /\ sites' = sites
  /\ last' = Quiet(sites)
  /\ UNCHANGED <<cvars, bvars>>

Next ==
  \/ \E label \in Leaves, n \in SubmitArgs : Submit(label, n)
  \/ ProcessComplete
  \/ ProcessIdle
  \/ \E nd \in Nodes, n \in EnqArgs : Enqueue(nd, n)
  \/ \E nd \in Nodes : Rebalance(nd)
  \/ \E nd \in Nodes : IsFull(nd)
  \/ \E nd \in Nodes : GetInfo(nd)
  \/ Continue

Spec == Init /\ [][Next]_vars

(***************************************************************************)
(* The driver of the second configuration: targets are filled through the  *)
(* plugin, jobs start running, and quota is enqueued on the root.          *)
(***************************************************************************)
\* amounts submitted to a target: the default minfullpending or the target's max
ScenSubmitArgs ==
  {minfullpending[l] : l \in ScenLeaves} \cup {mock[l][1] : l \in ScenLeaves}

\* quotas of the scenarios
ScenEnqArgs == {10, 15, 20}

\* the submit collaborator called with its full signature on a leaf of the scenario
ScenSubmit(label, n) ==
  LET r == submit_call(sites, <<n, label, mock[label]>>)
  IN /\ Ready
     /\ r.kind # "raise"
     /\ r.sites[label].idle + r.sites[label].running <= mock[label][1] + minfullpending[label]
     /\ sites' = r.sites
     /\ last' = Quiet(r.sites)
     /\ UNCHANGED <<cvars, bvars>>

ScenNext ==
  \/ \E label \in ScenLeaves, n \in ScenSubmitArgs : ScenSubmit(label, n)
  \/ ProcessIdle
  \/ \E n \in ScenEnqArgs : Enqueue("lbscen", n)
  \/ Continue

SpecScenario == Init /\ [][ScenNext]_vars

(***************************************************************************)
(* The analyzer over a schedd with any jobs: test_isfull, called again as   *)
(* time passes.                                                            *)
(***************************************************************************)
AnalyzerInit ==
  /\ sites = <<>>
  /\ last = Quiet(<<>>)
  /\ clock = 0
  /\ jobs \in JobSeqs
  /\ cache = NoCaches
  /\ lock = FALSE
  /\ instances = NoInstances
  /\ seen = Unseen
  /\ qm = NoQm
  /\ th = [kind |-> "none"]

AnalyzerNext ==
  \/ \E found \in BOOLEAN, up \in BOOLEAN, keyerror \in BOOLEAN : GetIsFull(found, up, keyerror)
  \/ Tick

SpecAnalyzer == AnalyzerInit /\ [][AnalyzerNext]_vars

(***************************************************************************)
(* Queries on the schedd object of a schedd with one idle job.             *)
(***************************************************************************)
ScheddJobs == <<[label |-> "Q1", jobstatus |-> 1, ecs |-> -400]>>

QueryInit ==
  /\ sites = <<>>
  /\ last = Quiet(<<>>)
  /\ clock = 0
  /\ jobs = ScheddJobs
  /\ cache = NoCaches
  /\ lock = FALSE
  /\ instances = NoInstances
  /\ seen = Unseen
  /\ qm = NoQm
  /\ th = [kind |-> "none"]

QueryNext ==
  \/ \E al \in AttrLists, cl \in ConstraintLists, up \in BOOLEAN : CondorQ(al, cl, up)
  \/ \E al \in AttrLists, cl \in ConstraintLists, up \in BOOLEAN : CondorHistory(al, cl, up)
  \/ Tick

SpecQuery == QueryInit /\ [][QueryNext]_vars

(***************************************************************************)
(* Constructor calls of the singleton classes.                             *)
(***************************************************************************)
SingletonNext ==
  \/ \E a \in {"", "localhost", "s1"}, found \in BOOLEAN : NewSchedd(a, found)
  \/ \E h \in {"", "h1", "alias1"}, p \in {0, 9618}, found \in BOOLEAN :
        NewCollector(h, p, found)
  \/ \E found \in BOOLEAN : NewMockBatchPlugin(found)

SpecSingleton == Init /\ [][SingletonNext]_vars

(***************************************************************************)
(* Construction of a QueueManager from a configuration.                    *)
(***************************************************************************)
ConfigInit ==
  /\ sites = <<>>
  /\ last = Quiet(<<>>)
  /\ ScheddInit
  /\ qm \in {[NoQm EXCEPT !.kind = "config", !.cfg = c] : c \in Configs}
  /\ th = [kind |-> "none"]

BuildNext == \E bound \in BOOLEAN, order \in Orders(Range(qm.cfg.sections)) : Build(bound, order)

SpecBuild == ConfigInit /\ [][BuildNext]_vars

(***************************************************************************)
(* A leaf's rebalance() and a submit for the same label in two threads.    *)
(* Neither method takes a lock; a thread switch may fall between any two   *)
(* reads and writes of site.idle.  The target of subA is at capacity.      *)
(***************************************************************************)
\* largest idle count of the target when the two calls begin
MaxIdle0 == 4
\* largest number handed to submit
MaxSubmit == 3

\* the target and the two threads: pc and local values of rebalance (r) and submit (s)
RaceInit ==
  /\ sites = <<>>
  /\ last = Quiet(<<>>)
  /\ ScheddInit
  /\ qm = NoQm
  /\ th \in {[kind |-> "race",
              site |-> [max |-> mock["subA"][1], idle |-> i, running |-> mock["subA"][1],
                        complete |-> 0],
              idle0 |-> i, n |-> n,
              rpc |-> "test", overflow |-> 0, rtmp |-> 0,
              spc |-> "load", stmp |-> 0] : i \in 0..MaxIdle0, n \in 1..MaxSubmit}

\* if site.isFull() and site.idle > self.minfullpending
RebalanceTest ==
  /\ th.kind = "race" /\ th.rpc = "test"
  /\ th' = [th EXCEPT !.rpc = IF MockSite_isFull(th.site)
                                  /\ th.site.idle > minfullpending["subA"]
                               THEN "overflow" ELSE "done"]
  /\ UNCHANGED <<tvars, cvars, qm>>

\* overflow = site.idle - self.minfullpending
RebalanceOverflow ==
  /\ th.kind = "race" /\ th.rpc = "overflow"
  /\ th' = [th EXCEPT !.rpc = "load", !.overflow = th.site.idle - minfullpending["subA"]]
  /\ UNCHANGED <<tvars, cvars, qm>>

\* site.idle = site.idle - overflow: the right-hand side is evaluated
RebalanceLoad ==
  /\ th.kind = "race" /\ th.rpc = "load"
  /\ th' = [th EXCEPT !.rpc = "store", !.rtmp = th.site.idle - th.overflow]
  /\ UNCHANGED <<tvars, cvars, qm>>

\* site.idle = site.idle - overflow: the attribute is assigned; return overflow
RebalanceStore ==
  /\ th.kind = "race" /\ th.rpc = "store"
  /\ th' = [th EXCEPT !.rpc = "done", !.site.idle = th.rtmp]
  /\ UNCHANGED <<tvars, cvars, qm>>

\* siteobj.idle += n: the attribute is read and n added
SubmitLoad ==
  /\ th.kind = "race" /\ th.spc = "load"
  /\ th' = [th EXCEPT !.spc = "store", !.stmp = th.site.idle + th.n]
  /\ UNCHANGED <<tvars, cvars, qm>>

\* siteobj.idle += n: the attribute is assigned
SubmitStore ==
  /\ th.kind = "race" /\ th.spc = "store"
  /\ th' = [th EXCEPT !.spc = "done", !.site.idle = th.stmp]
  /\ UNCHANGED <<tvars, cvars, qm>>

RaceNext ==
  \/ RebalanceTest
  \/ RebalanceOverflow
  \/ RebalanceLoad
  \/ RebalanceStore
  \/ SubmitLoad
  \/ SubmitStore

SpecRace == RaceInit /\ [][RaceNext]_vars

(***************************************************************************)
(* Several threads calling the four remote methods of one                  *)
(* HTCondorScheddImpl object.  Each method acquires self.lock, makes its   *)
(* remote call and releases the lock on the line after the call; a call    *)
(* that raises leaves the method before that line.                         *)
(***************************************************************************)
\* number of caller threads
MaxThreads == 3

\* self.lock.acquire() goes through at once: the lock is not looked at
Lock_acquire_NoWait(lk) == TRUE

\* self.lock.acquire() goes through when the lock is free, and waits otherwise
Lock_acquire(lk) == ~lk

LockInit ==
  /\ sites = <<>>
  /\ last = Quiet(<<>>)
  /\ ScheddInit
  /\ qm = NoQm
  /\ th = [kind |-> "lock", pc |-> [t \in 1..MaxThreads |-> "idle"],
           method |-> [t \in 1..MaxThreads |-> "none"]]

\* thread t enters method m and runs up to self.lock.acquire(); condor_submit
\* raises EmptySubmitFile before that line when the description has no items
Enter(t, m, empty) ==
  /\ th.kind = "lock" /\ th.pc[t] \in {"idle", "raised"}
  /\ th' = [th EXCEPT !.pc[t] = IF m = "condor_submit" /\ empty THEN "raised" ELSE "wait",
                      !.method[t] = m]
  /\ UNCHANGED <<tvars, cvars, qm>>

\* self.lock.acquire() returns: the thread is inside the remote call
Acquire(t) ==
  /\ th.kind = "lock" /\ th.pc[t] = "wait"
  /\ Lock_acquire(lock)
  /\ lock' = TRUE
  /\ th' = [th EXCEPT !.pc[t] = "remote"]
  /\ UNCHANGED <<tvars, clock, jobs, cache, instances, seen, qm>>

\* the remote call returns: self.lock.release(), and the method returns
RemoteReturn(t) ==
  /\ th.kind = "lock" /\ th.pc[t] = "remote"
  /\ lock' = FALSE
  /\ th' = [th EXCEPT !.pc[t] = "idle"]
  /\ UNCHANGED <<tvars, clock, jobs, cache, instances, seen, qm>>

\* the remote call raises: the exception leaves the method, release() is not run
RemoteRaise(t) ==
  /\ th.kind = "lock" /\ th.pc[t] = "remote"
  /\ th' = [th EXCEPT !.pc[t] = "raised"]
  /\ UNCHANGED <<tvars, cvars, qm>>

LockNext ==
  \/ \E t \in 1..MaxThreads, empty \in BOOLEAN,
        m \in {"condor_q", "condor_history", "condor_rm", "condor_submit"} :
          Enter(t, m, empty)
  \/ \E t \in 1..MaxThreads : Acquire(t)
  \/ \E t \in 1..MaxThreads : RemoteReturn(t)
  \/ \E t \in 1..MaxThreads : RemoteRaise(t)

SpecLock == LockInit /\ [][LockNext]_vars

\* a remote call ends, one way or the other; nothing obliges a thread to make a call
SpecLockFair ==
  /\ LockInit
  /\ [][LockNext]_vars
  /\ \A t \in 1..MaxThreads : WF_vars(RemoteReturn(t) \/ RemoteRaise(t))

(***************************************************************************)
(* One _thread object: start() and join() called from outside, one after   *)
(* another, and the steps of run() in the thread itself.                   *)
(***************************************************************************)
\* largest number of start() calls
MaxStarts == 3
\* largest number of join() calls
MaxJoins == 2
\* latest time of the loop
MaxNow == 6

\* self._thread_loop_interval and self._thread_abort_interval
_thread_loop_interval == 1

_thread_abort_interval == 1

\* the module imports logging, logging.handlers, threading and time
traceback_imported == FALSE

\* the default policies
_propagate_exception == FALSE

_abort_on_exception == FALSE

\* start() without the test of self._thread_started
start_Unguarded(o) ==
  [o EXCEPT !._thread_started = TRUE, !.calls = @ + 1, !.starts = @ + 1,
            !.pc = IF o.starts = 0 THEN "loop" ELSE o.pc]

\* threading.Thread.start(self) makes the thread enter run() when it is the first
start(o) ==
  IF ~o._thread_started
  THEN [o EXCEPT !._thread_started = TRUE, !.calls = @ + 1, !.starts = @ + 1,
                 !.pc = IF o.starts = 0 THEN "loop" ELSE o.pc]
  ELSE [o EXCEPT !.calls = @ + 1]

\* (now - self._thread_last_action) > self._thread_loop_interval
_check_for_actions(o) == (o.now - o._thread_last_action) > _thread_loop_interval

\* the object after __init__, at time 2
ThreadInit ==
  /\ sites = <<>>
  /\ last = Quiet(<<>>)
  /\ ScheddInit
  /\ qm = NoQm
  /\ th = [kind |-> "thread", _thread_started |-> FALSE, stopevent |-> FALSE,
           _thread_last_action |-> 0, now |-> 2, pc |-> "none",
           calls |-> 0, starts |-> 0, joins |-> 0, failures |-> 0, postruns |-> 0]

Start ==
  /\ th.kind = "thread" /\ th.calls < MaxStarts
  /\ th' = start(th)
  /\ UNCHANGED <<tvars, cvars, qm>>

\* join(): only the first call sets the event and goes on to wait for the thread
Join ==
  /\ th.kind = "thread" /\ th.joins < MaxJoins
  /\ th' = IF ~th.stopevent THEN [th EXCEPT !.stopevent = TRUE, !.joins = @ + 1]
           ELSE [th EXCEPT !.joins = @ + 1]
  /\ UNCHANGED <<tvars, cvars, qm>>

\* while not self.stopevent.isSet(): when the event is set _mainloop returns,
\* run() calls self._postrun() and returns
MainloopTest ==
  /\ th.kind = "thread" /\ th.pc = "loop"
  /\ th' = IF th.stopevent THEN [th EXCEPT !.postruns = @ + 1, !.pc = "done"]
           ELSE [th EXCEPT !.pc = "body"]
  /\ UNCHANGED <<tvars, cvars, qm>>

\* the try statement of one iteration; raises says whether _run() raises.  In the
\* except clause traceback.format_exc is looked up in a module that does not
\* import traceback, and the NameError leaves _mainloop and run(); self.join()
\* in the thread itself sets the stop event and raises RuntimeError
MainloopBody(raises) ==
  /\ th.kind = "thread" /\ th.pc = "body"
  /\ th' = IF ~_check_for_actions(th) THEN [th EXCEPT !.pc = "wait"]
           ELSE IF ~raises THEN [th EXCEPT !._thread_last_action = th.now, !.pc = "wait"]
           ELSE IF ~traceback_imported THEN [th EXCEPT !.failures = @ + 1, !.pc = "dead"]
           ELSE IF _propagate_exception THEN [th EXCEPT !.failures = @ + 1, !.pc = "dead"]
           ELSE IF _abort_on_exception
                THEN [th EXCEPT !.failures = @ + 1, !.stopevent = TRUE, !.pc = "dead"]
           ELSE [th EXCEPT !.failures = @ + 1, !._thread_last_action = th.now,
                           !.pc = "wait"]
  /\ UNCHANGED <<tvars, cvars, qm>>

\* self._wait_for_abort(): time.sleep(self._thread_abort_interval)
WaitForAbort ==
  /\ th.kind = "thread" /\ th.pc = "wait"
  /\ th.now + _thread_abort_interval <= MaxNow
  /\ th' = [th EXCEPT !.now = @ + _thread_abort_interval, !.pc = "loop"]
  /\ UNCHANGED <<tvars, cvars, qm>>

ThreadNext ==
  \/ Start
  \/ Join
  \/ MainloopTest
  \/ \E raises \in BOOLEAN : MainloopBody(raises)
  \/ WaitForAbort

SpecThread == ThreadInit /\ [][ThreadNext]_vars

(***************************************************************************)
(* Vocabulary of the properties.                                           *)
(***************************************************************************)
RECURSIVE leavesUnder(_), SumRet(_)

\* the leaves of the subtree of a node
leavesUnder(nd) ==
  IF klass[nd] = "SubmitQueue" THEN {nd}
  ELSE UNION {leavesUnder(children[nd][i]) : i \in 1..Len(children[nd])}

\* a known target at capacity
AtCapacity(l, s) == l \in DOMAIN s /\ s[l].running >= s[l].max

\* a known target at capacity holding more idle jobs than minfullpending
Congested(l, s) == AtCapacity(l, s) /\ s[l].idle > minfullpending[l]

\* the calls of the latest walk made by the node the driver called
Below(op) == SelectSeq(last.log, LAMBDA e : e.depth = 1 /\ e.op = op)

\* the submit calls of the latest walk
Submits == SelectSeq(last.log, LAMBDA e : e.op = "submit")

SumRet(evs) == IF evs = <<>> THEN 0 ELSE evs[1].ret + SumRet(Tail(evs))

Returned(v) == last.kind = "int" /\ last.ret = v

\* the counts of every site are what they were before the call
SitesUnchanged == sites = last.pre

(***************************************************************************)
(* C1  Leaf rebalance, congested case: on a SubmitQueue whose target       *)
(* exists, is at capacity and holds idle > minfullpending, rebalance()     *)
(* returns idle - minfullpending and leaves idle == minfullpending, with   *)
(* running and complete as they were; so does every leaf rebalance made    *)
(* inside a walk; idle=12 with minfullpending=2 gives 10 and leaves 2.     *)
(***************************************************************************)
C1_LeafRebalanceCongested ==
  /\ \A l \in Leaves :
       (last.op = "rebalance" /\ last.node = l /\ Congested(l, last.pre)) =>
         /\ Returned(last.pre[l].idle - minfullpending[l])
         /\ sites[l] = [last.pre[l] EXCEPT !.idle = minfullpending[l]]
         /\ \A o \in DOMAIN sites \ {l} : sites[o] = last.pre[o]
  /\ \A i \in DOMAIN last.log :
       LET e == last.log[i]
       IN (e.op = "rebalance" /\ e.node \in Leaves /\ Congested(e.node, last.pre)) =>
            e.kind = "int" /\ e.ret = last.pre[e.node].idle - minfullpending[e.node]
  /\ LET r == SubmitQueue_rebalance("subB",
                 "subB" :> [max |-> 1, idle |-> 12, running |-> 1, complete |-> 0], 0)
     IN r.kind = "int" /\ r.ret = 10 /\ r.sites["subB"].idle = 2

C1_Witness ==
  /\ last.op = "rebalance" /\ last.node = "subB"
  /\ Congested("subB", last.pre)
  /\ last.ret > 0
  /\ DOMAIN sites = Leaves

(***************************************************************************)
(* C2  Internal-node rebalance as claimed: rebalance() on an LBQueue or    *)
(* OFQueue calls rebalance() on every child and sums the results; when     *)
(* the sum is positive and the node is not full after the children have    *)
(* rebalanced, it calls its own enqueue with the whole sum and returns 0;  *)
(* otherwise it returns the sum.                                           *)
(***************************************************************************)
C2_InternalRebalance ==
  \A nd \in Inner :
    (last.op = "rebalance" /\ last.node = nd) =>
      LET kids == Below("rebalance")
          sum == SumRet(kids)
          own == Below("enqueue")
          mid == IF kids = <<>> THEN last.pre ELSE kids[Len(kids)].post
      IN /\ [i \in 1..Len(kids) |-> kids[i].node] = children[nd]
         /\ IF sum > 0 /\ ~isFull(nd, mid)
            THEN /\ Len(own) = 1 /\ own[1].node = nd /\ own[1].arg = sum
                 /\ Returned(0)
            ELSE own = <<>> /\ Returned(sum)

(***************************************************************************)
(* C3  rebalance() never returns a negative number: every rebalance call   *)
(* of a walk that returns, on the node the driver called or on any node    *)
(* below it, returns an integer >= 0.                                      *)
(***************************************************************************)
C3_RebalanceNonNegative ==
  /\ last.op = "rebalance" /\ last.kind # "raise" => last.kind = "int" /\ last.ret >= 0
  /\ \A i \in DOMAIN last.log :
       LET e == last.log[i]
       IN e.op = "rebalance" /\ e.kind # "raise" => e.kind = "int" /\ e.ret >= 0

C3_Witness ==
  /\ last.op = "rebalance" /\ last.node = "lbroot1"
  /\ last.kind = "int" /\ last.ret > 0
  /\ \E i \in DOMAIN last.log : last.log[i].node = "subA" /\ last.log[i].ret = 0

(***************************************************************************)
(* C4  Rebalance converges: when rebalance() is called again and again on  *)
(* one node with nothing in between, a call returns 0 after no more calls  *)
(* than the subtree has leaves, plus one; and a call that follows a call   *)
(* that returned 0 returns 0 and changes no count of any target.           *)
(***************************************************************************)
C4_RebalanceConverges ==
  last.op = "rebalance" =>
    /\ last.streak > Cardinality(leavesUnder(last.node)) => Returned(0) /\ SitesUnchanged
    /\ (last.streak >= 2 /\ last.prev.kind = "int" /\ last.prev.ret = 0) =>
         Returned(0) /\ SitesUnchanged

C4_Witness ==
  /\ last.op = "rebalance" /\ last.node = "lbroot1"
  /\ last.streak = 3
  /\ last.prev.kind = "raise"
  /\ Returned(0)

(***************************************************************************)
(* C5  isFull() of an LBQueue or OFQueue is true exactly when isFull() is  *)
(* true of every child; it is true of a node without children.             *)
(***************************************************************************)
C5_InnerFullIffAllChildren ==
  /\ \A nd \in Inner :
       isFull(nd, sites) <=> \A i \in 1..Len(children[nd]) : isFull(children[nd][i], sites)
  /\ \A nd \in Inner :
       (last.op = "isFull" /\ last.node = nd) =>
         (last.full <=> \A ch \in Range(children[nd]) : isFull(ch, last.pre))
  /\ \A nd \in Inner : children[nd] = <<>> => isFull(nd, sites)

C5_Witness ==
  /\ last.op = "isFull" /\ last.node = "lbroot1"
  /\ ~last.full
  /\ isFull("subC", sites)
  /\ ~isFull("ofnode1", sites)

(***************************************************************************)
(* C6  Leaf fullness: SubmitQueue.isFull() is true exactly when the        *)
(* target exists, is at capacity (running >= max) and holds                *)
(* idle >= minfullpending; at capacity with idle < minfullpending it is    *)
(* not full.                                                               *)
(***************************************************************************)
C6_LeafFull ==
  /\ \A l \in Leaves :
       isFull(l, sites) <=> (AtCapacity(l, sites) /\ sites[l].idle >= minfullpending[l])
  /\ \A l \in Leaves :
       (last.op = "isFull" /\ last.node = l) =>
         (last.full <=> (AtCapacity(l, last.pre) /\ last.pre[l].idle >= minfullpending[l]))

C6_Witness ==
  /\ last.op = "isFull" /\ last.node = "subB"
  /\ AtCapacity("subB", last.pre)
  /\ last.pre["subB"].idle < minfullpending["subB"]
  /\ ~last.full

(***************************************************************************)
(* C7  An unknown target is neutral: for a leaf whose label is no key of   *)
(* the plugin's sites, isFull() returns false, rebalance() returns 0 and   *)
(* getInfo() reports 0 idle, running and complete; none raises and none    *)
(* creates the target.                                                     *)
(***************************************************************************)
C7_UnknownTargetNeutral ==
  \A l \in Leaves :
    (last.node = l /\ l \notin DOMAIN last.pre) =>
      /\ last.op = "isFull" => ~last.full /\ SitesUnchanged
      /\ last.op = "rebalance" => Returned(0) /\ SitesUnchanged
      /\ last.op = "getInfo" => last.info = Info(0, 0, 0) /\ SitesUnchanged
      /\ last.op \in {"isFull", "rebalance", "getInfo"} =>
           last.kind # "raise" /\ l \notin DOMAIN sites

C7_Witness ==
  /\ last.op = "rebalance" /\ last.node = "subA"
  /\ "subA" \notin DOMAIN last.pre
  /\ "subB" \in DOMAIN sites

(***************************************************************************)
(* C8  Leaf placement when open, as claimed: enqueue(n) on a SubmitQueue   *)
(* that is not full makes one submit call carrying n for the leaf's own    *)
(* label, so the target of that label (created when missing) gains         *)
(* exactly n idle jobs and no other target changes; the call returns 0.    *)
(***************************************************************************)
C8_OpenLeafEnqueue ==
  \A l \in Leaves :
    (last.op = "enqueue" /\ last.node = l /\ ~isFull(l, last.pre)) =>
      /\ Len(Submits) = 1 /\ Submits[1].node = l /\ Submits[1].arg = last.arg
      /\ last.kind # "raise"
      /\ l \in DOMAIN sites
      /\ sites[l].idle = (IF l \in DOMAIN last.pre THEN last.pre[l].idle ELSE 0) + last.arg
      /\ \A o \in DOMAIN sites \ {l} : o \in DOMAIN last.pre /\ sites[o] = last.pre[o]
      /\ Returned(0)

C10_LoadBalanceSplit ==
  \A nd \in Inner :
    (last.op = "enqueue" /\ last.node = nd /\ klass[nd] = "LBQueue" /\ last.arg > 0) =>
      LET open == SelectSeq(children[nd], LAMBDA ch : ~isFull(ch, last.pre))
          k == Len(open)
          share == IF k = 1 THEN last.arg
                   ELSE IF last.arg \div k >= 1 THEN last.arg \div k ELSE 1
          made == Below("enqueue")
      IN k >= 1 =>
           /\ [i \in 1..Len(made) |-> made[i].node] = open
           /\ \A i \in 1..Len(made) : made[i].arg = share

IdleOf(l, s) == IF l \in DOMAIN s THEN s[l].idle ELSE 0

\* the running count of a leaf's target, 0 when the target does not exist yet
RunningOf(l, s) == IF l \in DOMAIN s THEN s[l].running ELSE 0

\* what the latest call added to the idle count of a leaf's target
Added(l) == IdleOf(l, sites) - IdleOf(l, last.pre)

(***************************************************************************)
(* C12  Scenario A, as claimed: with three empty leaves of max 5, 10 and   *)
(* 10 under one LoadBalance root, enqueue(20) on the root raises the three *)
(* leaves' idle counts by amounts that sum to exactly 20 and reports no    *)
(* overflow.                                                               *)
(***************************************************************************)
C12_ScenarioA ==
  (/\ last.op = "enqueue" /\ last.node = "lbscen" /\ last.arg = 20
   /\ \A l \in ScenLeaves : IdleOf(l, last.pre) = 0 /\ RunningOf(l, last.pre) = 0) =>
    /\ last.kind # "raise"
    /\ last.kind = "int" => last.ret = 0
    /\ Added("leaf1") + Added("leaf2") + Added("leaf3") = 20

(***************************************************************************)
(* C13  Scenario B, as claimed: with leaf1's target at capacity            *)
(* (running = 5) and leaf2, leaf3 empty, enqueue(15) on the root adds      *)
(* nothing to leaf1 and adds amounts totalling 15 to leaf2 and leaf3.      *)
(***************************************************************************)
C13_ScenarioB ==
  (/\ last.op = "enqueue" /\ last.node = "lbscen" /\ last.arg = 15
   /\ RunningOf("leaf1", last.pre) = 5
   /\ \A l \in {"leaf2", "leaf3"} : IdleOf(l, last.pre) = 0 /\ RunningOf(l, last.pre) = 0) =>
    /\ last.kind # "raise"
    /\ Added("leaf1") = 0
    /\ Added("leaf2") + Added("leaf3") = 15

C15_FullSubtreeEnqueue ==
  \A nd \in Nodes :
    (last.op = "enqueue" /\ last.node = nd /\ last.arg > 0 /\ isFull(nd, last.pre)) =>
      /\ Submits = <<>>
      /\ SitesUnchanged

\* enqueue on the full OrderedFill node while its sibling leaf is open
C15_Witness ==
  /\ last.op = "enqueue" /\ last.node = "ofnode1" /\ last.arg > 0
  /\ isFull("ofnode1", last.pre)
  /\ ~isFull("subC", last.pre)
  /\ sites = last.pre

(***************************************************************************)
(* C16  LoadBalance return value, as claimed: for n > 0 with at least one  *)
(* open child, LBQueue.enqueue(n) returns the sum of the unplaced amounts  *)
(* returned by the children it called enqueue on, so 0 when every called   *)
(* child places its whole share.                                           *)
(***************************************************************************)
C16_LoadBalanceReturn ==
  \A nd \in Inner :
    (/\ last.op = "enqueue" /\ last.node = nd /\ klass[nd] = "LBQueue" /\ last.arg > 0
     /\ Len(openchildren(nd, last.pre)) >= 1) =>
      LET made == Below("enqueue")
      IN /\ \A i \in 1..Len(made) : made[i].kind = "int"
         /\ Returned(SumRet(made))

(***************************************************************************)
(* C17  OrderedFill fan-out, as claimed: for n > 0, OFQueue.enqueue(n)     *)
(* calls enqueue on every child that is not full, in declared child order, *)
(* each time with the entire n, and never calls enqueue on a full child.   *)
(***************************************************************************)
C17_OrderedFillFanOut ==
  \A nd \in Inner :
    (last.op = "enqueue" /\ last.node = nd /\ klass[nd] = "OFQueue" /\ last.arg > 0) =>
      LET made == Below("enqueue")
      IN /\ [i \in 1..Len(made) |-> made[i].node] = openchildren(nd, last.pre)
         /\ \A i \in 1..Len(made) : made[i].arg = last.arg

(***************************************************************************)
(* C18  Non-positive quota is a no-op: for n == 0 and for n < 0,           *)
(* enqueue(n) on an LBQueue or OFQueue calls enqueue on no child, makes no *)
(* submit call and leaves every target's counts unchanged.                 *)
(***************************************************************************)
C18_NonPositiveNoOp ==
  \A nd \in Inner :
    (last.op = "enqueue" /\ last.node = nd /\ last.arg <= 0) =>
      /\ Below("enqueue") = <<>>
      /\ Submits = <<>>
      /\ SitesUnchanged
      /\ last.kind # "raise"

\* enqueue of a negative quota on the OrderedFill node with an open child
C18_Witness ==
  /\ last.op = "enqueue" /\ last.node = "ofnode1" /\ last.arg < 0
  /\ openchildren("ofnode1", last.pre) # <<>>
  /\ "subA" \in DOMAIN sites

(***************************************************************************)
(* C19  Target counts stay non-negative: after any sequence of enqueue(n)  *)
(* calls with arbitrary integer n, negative n and calls made directly on a *)
(* leaf included, rebalance() calls and run/complete cycles of the         *)
(* targets, every target has idle >= 0, running >= 0 and complete >= 0.    *)
(***************************************************************************)
C19_CountsNonNegative ==
  \A l \in DOMAIN sites :
    sites[l].idle >= 0 /\ sites[l].running >= 0 /\ sites[l].complete >= 0

\* a negative quota enqueued directly on an open leaf whose target holds no idle job
C19_Witness ==
  /\ last.op = "enqueue" /\ last.node = "subC" /\ last.arg < 0
  /\ "subC" \in DOMAIN last.pre
  /\ last.pre["subC"].idle = 0
  /\ ~isFull("subC", last.pre)

\* the complete count of a leaf's target, 0 when the target does not exist yet
CompleteOf(l, s) == IF l \in DOMAIN s THEN s[l].complete ELSE 0

\* the counts of the targets of the leaves below a node, summed
SubtreeCounts(nd, s) ==
  Info(Total([l \in leavesUnder(nd) |-> IdleOf(l, s)]),
       Total([l \in leavesUnder(nd) |-> RunningOf(l, s)]),
       Total([l \in leavesUnder(nd) |-> CompleteOf(l, s)]))

(***************************************************************************)
(* C20  getInfo aggregation: in every reachable state getInfo() on any     *)
(* node reports, for each of idle, running and complete, the sum of that   *)
(* count over the targets of all leaves of the node's subtree, counting 0  *)
(* for a target that does not exist yet; so right after construction       *)
(* getInfo() on every node reports all-zero counts.                        *)
(***************************************************************************)
C20_GetInfoAggregation ==
  /\ \A nd \in Nodes :
       (last.op = "getInfo" /\ last.node = nd) =>
         /\ last.info = SubtreeCounts(nd, sites)
         /\ sites = <<>> => last.info = Info(0, 0, 0)
  /\ sites = <<>> => \A nd \in rootlist : getInfo(nd, sites) = Info(0, 0, 0)

\* getInfo on the root while two leaves below it have targets with jobs
C20_Witness ==
  /\ last.op = "getInfo" /\ last.node = "lbroot1"
  /\ {"subA", "subC"} \subseteq DOMAIN sites
  /\ sites["subA"].idle > 0 /\ sites["subC"].running > 0
  /\ last.info.idle > 0 /\ last.info.running > 0 /\ last.info.complete > 0

\* the latest call was get_isfull and it returned this assessment
Assessed == seen.op = "get_isfull"

AdsOf(status, q) ==
  {i \in 1..Len(seen.out) : seen.out[i].jobstatus = status /\ seen.out[i].label = q}

\* a selected record is the ClassAd of the list with the latest status entry among
\* those of its status and label, and carries its age
LatestOf(rec, status, q) ==
  /\ \E i \in AdsOf(status, q) :
       /\ rec.ecs = seen.out[i].ecs
       /\ rec.servertime = seen.out[i].servertime
  /\ rec.label = q
  /\ rec.jobstatus = status
  /\ \A i \in AdsOf(status, q) : seen.out[i].ecs <= rec.ecs
  /\ rec.hasage
  /\ rec.age = rec.servertime - rec.ecs

LabelsOf(status) == {seen.out[i].label : i \in {j \in 1..Len(seen.out) :
                                                  seen.out[j].jobstatus = status}}

(***************************************************************************)
(* C23  Assessment key set: the assessment _build_queuedict makes of the   *)
(* two partitions holds exactly one TargetInfo for every label that has at *)
(* least one idle or at least one running record, and for no other label;  *)
(* a label with records of only one of the two kinds has None for the      *)
(* other field.                                                            *)
(***************************************************************************)
C23_AssessmentKeys ==
  (Assessed /\ seen.step = "ok") =>
    /\ DOMAIN seen.queuedict = LabelsOf(1) \cup LabelsOf(2)
    /\ \A q \in DOMAIN seen.queuedict :
         /\ q \notin LabelsOf(2) <=> seen.queuedict[q].newestrunning = None
         /\ q \notin LabelsOf(1) <=> seen.queuedict[q].oldestidle = None

\* an assessment answered from the cache for a label with running jobs only and
\* a label with idle jobs only
C23_Witness ==
  /\ Assessed
  /\ ~seen.remote
  /\ DOMAIN seen.queuedict = {"Q1", "Q2"}
  /\ seen.queuedict["Q1"].oldestidle = None
  /\ seen.queuedict["Q2"].newestrunning = None

(***************************************************************************)
(* C24  Analyzer failure degrades to empty: when the query for the job     *)
(* records (or the construction of the schedd object) raises, get_isfull   *)
(* raises nothing and returns the empty dictionary; what it returns is     *)
(* either empty or holds every label of the records, never a part of them. *)
(***************************************************************************)
C24_FailureDegradesToEmpty ==
  Assessed =>
    /\ seen.kind = "ok"
    /\ (seen.query = "raise" \/ seen.step = "raise") => seen.queuedict = <<>>
    /\ \/ seen.queuedict = <<>>
       \/ DOMAIN seen.queuedict = LabelsOf(1) \cup LabelsOf(2)

\* the schedd has jobs, the query raised and get_isfull returned {}
C24_Witness ==
  /\ Assessed
  /\ seen.query = "raise"
  /\ jobs # <<>>
  /\ seen.kind = "ok"
  /\ seen.queuedict = <<>>

(***************************************************************************)
(* C25  A failing target does not abort the cycle, as claimed: when the    *)
(* submit call fails for a leaf during enqueue(n) on an ancestor, the      *)
(* failure stays in that leaf's enqueue, no exception reaches the caller   *)
(* of the ancestor, and every other open child of the ancestor still has   *)
(* enqueue called on it.                                                   *)
(***************************************************************************)
C25_FailureContained ==
  \A nd \in Inner :
    (/\ last.op = "enqueue" /\ last.node = nd /\ last.arg > 0
     /\ \E i \in 1..Len(Submits) : Submits[i].kind = "raise") =>
      /\ last.kind # "raise"
      /\ \A i \in 1..Len(last.log) :
           (last.log[i].op = "enqueue" /\ klass[last.log[i].node] = "SubmitQueue")
             => last.log[i].kind # "raise"
      /\ \A j \in 1..Len(openchildren(nd, last.pre)) :
           \E i \in 1..Len(Below("enqueue")) :
             Below("enqueue")[i].node = openchildren(nd, last.pre)[j]

\* the sections of the configuration the QueueManager was built from
Built == Range(qm.cfg.sections)

\* the nodes that list nd as a child
ListedBy(nd) == {p \in Built : nd \in Range(qm.children[p])}

\* the nodes reached from nd over at most k parent references
RECURSIVE Ancestors(_, _)
Ancestors(nd, k) ==
  IF k = 0 \/ qm.parent[nd] = "" THEN {}
  ELSE {qm.parent[nd]} \cup Ancestors(qm.parent[nd], k - 1)

(***************************************************************************)
(* C26  Configuration errors are fatal at build time, as claimed: a        *)
(* QueueManager is built only when every section names a node class of the *)
(* module and omits no required option, every leaf has its batch plugin,   *)
(* and every label of a childlist is a section; otherwise the constructor  *)
(* raises.                                                                 *)
(***************************************************************************)
C26_ConfigErrorsFatal ==
  qm.kind = "ok" =>
    \A s \in Built :
      /\ qm.cfg.sec[s].klass \in NodeClasses
      /\ qm.cfg.sec[s].omitted = "none"
      /\ qm.cfg.sec[s].klass # "SubmitQueue" => Range(qm.cfg.sec[s].childlist) \subseteq Built

Queried == seen.op \in {"condor_q", "condor_history"} /\ seen.kind = "ok"

\* the caching dictionary of the latest query, before and after the call
CacheBefore == IF seen.op = "condor_q" THEN seen.pre.q ELSE seen.pre.history

CacheAfter == IF seen.op = "condor_q" THEN cache.q ELSE cache.history

\* the latest query was answered from the cache and the entry is as it was
FromCache ==
  /\ ~seen.remote
  /\ seen.out = CacheBefore[seen.key].out
  /\ CacheAfter[seen.key] = CacheBefore[seen.key]

\* the latest query was answered by the schedd and cached with the time of the call
FromSchedd ==
  /\ seen.remote
  /\ seen.out = schedd_query(jobs, seen.key[2], seen.now)
  /\ CacheAfter[seen.key] = [ts |-> seen.now, out |-> seen.out]

Constructed == seen.op = "new" /\ seen.kind = "ok"

(***************************************************************************)
(* C28  Singletons: a constructor call of HTCondorSchedd,                  *)
(* HTCondorCollector or MockBatchPlugin returns the implementation object  *)
(* kept for its key (the address, 'localhost' without one; the one         *)
(* instance of MockBatchPlugin): the object an earlier call with the key   *)
(* returned when there was one; the objects kept for the other keys stay,  *)
(* and at most one implementation object is ever created per key.          *)
(***************************************************************************)
C28_Singletons ==
  /\ \A k \in DOMAIN instances.made : instances.made[k] <= 1
  /\ Constructed =>
       /\ seen.key \in DOMAIN instances.reg
       /\ seen.ret = instances.reg[seen.key]
       /\ \A k \in DOMAIN seen.prereg :
            k \in DOMAIN instances.reg /\ instances.reg[k] = seen.prereg[k]

\* HTCondorSchedd() after HTCondorSchedd(address='localhost') or the reverse, with
\* objects of other keys made in between: the call returns the object kept
C28_Witness ==
  /\ Constructed
  /\ seen.key = scheddkey("")
  /\ seen.key \in DOMAIN seen.prereg
  /\ seen.ret = seen.prereg[seen.key]
  /\ instances.ids >= 3
  /\ mockkey \in DOMAIN instances.reg

RECURSIVE leafSeq(_), leafSeqOf(_)

\* the leaves below a node, depth first in childlist order
leafSeq(nd) == IF klass[nd] = "SubmitQueue" THEN <<nd>> ELSE leafSeqOf(children[nd])

leafSeqOf(chs) == IF chs = <<>> THEN <<>> ELSE leafSeq(chs[1]) \o leafSeqOf(Tail(chs))

\* the nodes of the events come in the order of the sequence, none twice
InOrderOf(evs, sq) ==
  /\ \A i \in 1..Len(evs) : evs[i].node \in Range(sq)
  /\ \A i, j \in 1..Len(evs) :
       i < j => \E a, b \in 1..Len(sq) : a < b /\ sq[a] = evs[i].node /\ sq[b] = evs[j].node

\* the rebalance calls of the latest walk on leaves
LeafRebalances ==
  SelectSeq(last.log, LAMBDA e : e.op = "rebalance" /\ klass[e.node] = "SubmitQueue")

(***************************************************************************)
(* C30  Visit order: within one enqueue or rebalance call on an internal   *)
(* node, the calls it makes on its children come in the order of its       *)
(* childlist, and depth first: the submit calls of an enqueue and the leaf *)
(* rebalance calls (with their idle reductions) of a rebalance come in the *)
(* depth-first order of the leaves below the node.                         *)
(***************************************************************************)
C30_VisitOrder ==
  \A nd \in Inner :
    (last.op \in {"enqueue", "rebalance"} /\ last.node = nd) =>
      /\ InOrderOf(Below(last.op), children[nd])
      /\ last.op = "enqueue" => InOrderOf(Submits, leafSeq(nd))
      /\ last.op = "rebalance" => InOrderOf(LeafRebalances, leafSeq(nd))

\* lbroot1.rebalance() with subA (below ofnode1) and subC congested: subA gives up
\* its idle jobs before subC does, subB is visited in between
C30_Witness ==
  /\ last.op = "rebalance" /\ last.node = "lbroot1"
  /\ Len(LeafRebalances) = 3
  /\ LeafRebalances[1].node = "subA" /\ LeafRebalances[1].ret > 0
  /\ LeafRebalances[2].node = "subB"
  /\ LeafRebalances[3].node = "subC" /\ LeafRebalances[3].ret > 0

\* what get_isfull makes of the list as the schedd answered it at time ts
FirstAssessment(ts) ==
  get_isfull([kind |-> "ok", out |-> schedd_query(jobs, <<>>, ts)], FALSE).queuedict

(***************************************************************************)
(* C37  Assessment is repeatable, as claimed: get_isfull on a list of job  *)
(* records it has assessed before (the list the query cache returns again) *)
(* yields the same TargetInfo per label as on the first evaluation; what   *)
(* the first evaluation did to the records does not alter or break the     *)
(* second.                                                                 *)
(***************************************************************************)
C37_Repeatable ==
  (Assessed /\ seen.query = "ok" /\ ~seen.remote) =>
    seen.queuedict = FirstAssessment(seen.pre.q[seen.key].ts)

\* the idle jobs of all targets
SumIdle(s) == Total([l \in DOMAIN s |-> s[l].idle])

(***************************************************************************)
(* C38  Rebalance conserves quota, as claimed: one rebalance() call on a   *)
(* root returns, and the sum of idle over all targets before the call      *)
(* equals the sum after the call plus the overflow the call returns.       *)
(***************************************************************************)
C38_RebalanceConserves ==
  \A nd \in rootlist \cap Nodes :
    (last.op = "rebalance" /\ last.node = nd) =>
      /\ last.kind = "int"
      /\ SumIdle(last.pre) = SumIdle(sites) + last.ret

(***************************************************************************)
(* C39  Forward progress on an open node, as claimed: enqueue(n) with      *)
(* n > 0 on a node whose isFull() is false raises the idle count of at     *)
(* least one target of the node's subtree by at least 1.                   *)
(***************************************************************************)
C39_ForwardProgress ==
  \A nd \in Nodes :
    (last.op = "enqueue" /\ last.node = nd /\ last.arg > 0 /\ ~isFull(nd, last.pre)) =>
      \E l \in leavesUnder(nd) : Added(l) >= 1

\* the leaf rebalance calls of the latest walk that gave up idle jobs
Yielded == SelectSeq(LeafRebalances, LAMBDA e : e.ret > 0)

(***************************************************************************)
(* C40  Reclaimed quota does not return to its source in the same pass: a  *)
(* leaf that yields positive overflow during a rebalance() pass is left    *)
(* with idle = minfullpending and is full from then on, so no enqueue of   *)
(* the pass submits to it and its idle count is minfullpending when the    *)
(* pass ends.                                                              *)
(***************************************************************************)
C40_NoReturnToSource ==
  last.op = "rebalance" =>
    \A i \in 1..Len(Yielded) :
      LET l == Yielded[i].node
      IN /\ Yielded[i].post[l].idle = minfullpending[l]
         /\ isFull(l, Yielded[i].post)
         /\ isFull(l, sites)
         /\ sites[l].idle = minfullpending[l]
         /\ \A j \in 1..Len(Submits) : Submits[j].node # l

\* lbroot1.rebalance(): subA yields, ofnode1 is not full and re-enqueues what it
\* collected
C40_Witness ==
  /\ last.op = "rebalance" /\ last.node = "lbroot1"
  /\ \E i \in 1..Len(Yielded) : Yielded[i].node = "subA"
  /\ \E i \in 1..Len(last.log) : last.log[i].op = "enqueue" /\ last.log[i].node = "ofnode1"
  /\ sites["subA"].idle = minfullpending["subA"]

(***************************************************************************)
(* C31  Atomic reclaim, as claimed: for every interleaving of one leaf     *)
(* rebalance() that reclaims overflow o and one submit of n for the same   *)
(* target, the target ends with idle = idle_before + n - o.                *)
(***************************************************************************)
C31_AtomicReclaim ==
  (th.kind = "race" /\ th.rpc = "done" /\ th.spc = "done" /\ th.overflow > 0) =>
    th.site.idle = th.idle0 + th.n - th.overflow

(***************************************************************************)
(* C32  Serialized remote calls: for one schedd object and any number of   *)
(* threads calling condor_q, condor_history, condor_rm and condor_submit,  *)
(* at most one thread at a time is inside a remote schedd call.            *)
(***************************************************************************)
C32_SerializedRemoteCalls ==
  th.kind = "lock" => Cardinality({t \in 1..MaxThreads : th.pc[t] = "remote"}) <= 1

\* one thread is inside its remote call while another waits for the lock
C32_Witness ==
  /\ th.kind = "lock"
  /\ \E t, u \in 1..MaxThreads : th.pc[t] = "remote" /\ th.pc[u] = "wait"

(***************************************************************************)
(* C33  The schedd lock is always given back, as claimed: whenever a       *)
(* thread has acquired the lock for a remote call, the lock is eventually  *)
(* released, whether the remote call returns or raises.                    *)
(***************************************************************************)
C33_LockGivenBack == lock ~> ~lock

(***************************************************************************)
(* C34  Start at most once: for any number of start() calls on the same    *)
(* _thread object, the underlying thread is started exactly once, by the   *)
(* first call; every later start() call does nothing.                      *)
(***************************************************************************)
C34_StartAtMostOnce ==
  (th.kind = "thread" /\ th.calls >= 1) => th.starts = 1

\* start() has been called more than once
C34_Witness ==
  th.kind = "thread" /\ th.calls >= 2 /\ th.starts = 1 /\ th.pc # "none"

(***************************************************************************)
(* C35  Loop survives a failing action, as claimed: with the default       *)
(* policies an exception raised by _run() in the main loop is caught and   *)
(* not propagated, the last-action time is updated and the loop goes on.   *)
(***************************************************************************)
C35_LoopSurvives ==
  [][(th.kind = "thread" /\ th'.failures > th.failures) =>
       (th'.pc = "wait" /\ th'._thread_last_action = th.now)]_vars

(***************************************************************************)
(* C36  Join stops the loop, as claimed: once join() has been called the   *)
(* stop event is set, and when the thread has ended run() has executed     *)
(* _postrun() once and returned; a second join() call does nothing.        *)
(***************************************************************************)
C36_JoinStopsLoop ==
  (th.kind = "thread" /\ th.joins >= 1) =>
    /\ th.stopevent
    /\ th.pc \in {"done", "dead"} => (th.pc = "done" /\ th.postruns = 1)

====
